---- MODULE Spec2Model ----
(***************************************************************************)
(* Model of the groundwater-balance pipeline of app/balance.py: the        *)
(* request handler gw_balance, the stages it runs through                  *)
(* (get_admin_from_latlon, get_taluka_area_sq_km, sample_raster,           *)
(* get_slope, fetch_ingres_with_fallback, fetch_ingres_business_data,      *)
(* calculate_groundwater_balance) and the pure helpers they use.           *)
(*                                                                         *)
(* Conventions.                                                            *)
(*  - A Python str is a sequence of one-character strings, so that         *)
(*    lower() and title() are computed character by character.            *)
(*  - An optional value (Python None or a value) is a sequence of length   *)
(*    0 or 1: None is <<>>, the value v is <<v>>.                          *)
(*  - A number with decimals is a rational [n |-> numerator, d |->         *)
(*    denominator] in lowest terms with d > 0.                             *)
(*  - A similarity score is carried in hundredths of a point (0..10000).   *)
(*                                                                         *)
(* Specifications.                                                         *)
(*  - Spec: the process serves one request after the other, while          *)
(*    taluka_areas.json may be rewritten; or one helper is called on its   *)
(*    own with arguments of any shape.                                     *)
(*  - SpecConcurrent: NumThreads requests are in flight at once, one       *)
(*    thread each, and interleave between the stages.                      *)
(***************************************************************************)
EXTENDS Integers, Sequences, FiniteSets, TLC

\* ------------------------------------------------------------------------
\* Bounds of the model
\* ------------------------------------------------------------------------
\* Requests served at the same time, one thread each.
NumThreads == 2
\* Coordinates are the grid cells (lon, lat) with 0 <= lon, lat <= MaxCoord.
MaxCoord == 3
\* farm_area_ares ranges over 1..MaxFarmArea.
MaxFarmArea == 2
\* A helper called on its own is given at most MaxLocations registry records.
MaxLocations == 2

\* ------------------------------------------------------------------------
\* Python str helpers
\* ------------------------------------------------------------------------
UpperLetters ==
  << "A", "B", "C", "D", "E", "F", "G", "H", "I", "J", "K", "L", "M",
     "N", "O", "P", "Q", "R", "S", "T", "U", "V", "W", "X", "Y", "Z" >>

LowerLetters ==
  << "a", "b", "c", "d", "e", "f", "g", "h", "i", "j", "k", "l", "m",
     "n", "o", "p", "q", "r", "s", "t", "u", "v", "w", "x", "y", "z" >>

IsUpper(c) == \E i \in 1..Len(UpperLetters) : UpperLetters[i] = c

IsLower(c) == \E i \in 1..Len(LowerLetters) : LowerLetters[i] = c

IsCased(c) == IsUpper(c) \/ IsLower(c)

ToLowerChar(c) ==
  IF IsUpper(c)
  THEN LowerLetters[CHOOSE i \in 1..Len(UpperLetters) : UpperLetters[i] = c]
  ELSE c

ToUpperChar(c) ==
  IF IsLower(c)
  THEN UpperLetters[CHOOSE i \in 1..Len(LowerLetters) : LowerLetters[i] = c]
  ELSE c

\* str.lower()
StrLower(s) == [i \in 1..Len(s) |-> ToLowerChar(s[i])]

\* str.title(): a cased character that follows an uncased one (or starts the
\* string) is upper-cased, every other cased character is lower-cased.
StrTitle(s) ==
  [i \in 1..Len(s) |->
     IF i > 1 /\ IsCased(s[i - 1]) THEN ToLowerChar(s[i]) ELSE ToUpperChar(s[i])]

\* Python truthiness of an optional str: None and "" are falsy.
Truthy(opt) == opt # <<>> /\ opt[1] # <<>>

Max(a, b) == IF a >= b THEN a ELSE b

Abs(a) == IF a < 0 THEN 0 - a ELSE a

\* ------------------------------------------------------------------------
\* rapidfuzz, as called by search_by_location_name and get_taluka_area_sq_km
\* ------------------------------------------------------------------------
\* Length of a longest common subsequence of two strings.
RECURSIVE LCSLen(_, _)
LCSLen(a, b) ==
  IF a = <<>> \/ b = <<>> THEN 0
  ELSE IF Head(a) = Head(b) THEN 1 + LCSLen(Tail(a), Tail(b))
  ELSE Max(LCSLen(Tail(a), b), LCSLen(a, Tail(b)))

\* fuzz.WRatio in hundredths of a point.  An empty string scores 0.  For two
\* single-word strings whose lengths differ by a factor below 1.5 (all names
\* of this model) WRatio is the normalised Indel similarity
\* 100 * 2 * LCS / (len1 + len2).
WRatio(s1, s2) ==
  IF s1 = <<>> \/ s2 = <<>> THEN 0
  ELSE (20000 * LCSLen(s1, s2)) \div (Len(s1) + Len(s2))

\* The processor process.extractOne applies to both strings before scoring:
\* rapidfuzz 2.x lower-cases them (utils.default_process), rapidfuzz 3.x
\* leaves them as they are.  lowercasing tells which library is installed.
Processed(lowercasing, s) == IF lowercasing THEN StrLower(s) ELSE s

\* process.extractOne(query, names, scorer=fuzz.WRatio, score_cutoff=cutoff):
\* the first name of the highest score among those scoring at least the
\* cutoff, as <<[name, score, idx]>> (idx counted from 1), or None.
ExtractOne(lowercasing, query, names, cutoff) ==
  LET sc(i) == WRatio(Processed(lowercasing, query), Processed(lowercasing, names[i]))
      ok == {i \in 1..Len(names) : sc(i) >= cutoff}
  IN IF ok = {} THEN <<>>
     ELSE LET best == CHOOSE i \in ok :
                        \A j \in ok : sc(j) < sc(i) \/ (sc(j) = sc(i) /\ i <= j)
          IN << [name |-> names[best], score |-> sc(best), idx |-> best] >>

\* Variant of search_by_location_name: the last exact match wins.
SearchByLocationNameLastExact(lowercasing, locations, query, score_cutoff) ==
  LET exact == {i \in 1..Len(locations) :
                  StrLower(locations[i].locationName) = StrLower(query)}
      names == [i \in 1..Len(locations) |-> locations[i].locationName]
      match == ExtractOne(lowercasing, query, names, score_cutoff)
  IN IF exact # {} THEN << locations[CHOOSE i \in exact : \A j \in exact : j <= i] >>
     ELSE IF match # <<>> THEN << locations[match[1].idx] >>
     ELSE <<>>

\* Variant of search_by_location_name: the fuzzy step ignores score_cutoff.
SearchByLocationNameNoCutoff(lowercasing, locations, query, score_cutoff) ==
  LET exact == {i \in 1..Len(locations) :
                  StrLower(locations[i].locationName) = StrLower(query)}
      names == [i \in 1..Len(locations) |-> locations[i].locationName]
      match == ExtractOne(lowercasing, query, names, 0)
  IN IF exact # {} THEN << locations[CHOOSE i \in exact : \A j \in exact : i <= j] >>
     ELSE IF match # <<>> THEN << locations[match[1].idx] >>
     ELSE <<>>

\* search_by_location_name(locations, query, score_cutoff): the Registry
\* Matcher.  Returns <<record>> or None.
SearchByLocationName(lowercasing, locations, query, score_cutoff) ==
  LET exact == {i \in 1..Len(locations) :
                  StrLower(locations[i].locationName) = StrLower(query)}
      names == [i \in 1..Len(locations) |-> locations[i].locationName]
      match == ExtractOne(lowercasing, query, names, score_cutoff)
  IN IF exact # {} THEN << locations[CHOOSE i \in exact : \A j \in exact : i <= j] >>
     ELSE IF match # <<>> THEN << locations[match[1].idx] >>
     ELSE <<>>

\* ------------------------------------------------------------------------
\* Numbers
\* ------------------------------------------------------------------------
RECURSIVE GCD(_, _)
GCD(a, b) == IF b = 0 THEN Abs(a) ELSE GCD(b, a % b)

\* The rational n/d (d # 0) in lowest terms with a positive denominator.
Rat(n, d) ==
  LET g == GCD(Abs(n), Abs(d))
      sgn == IF d < 0 THEN 0 - 1 ELSE 1
  IN [n |-> sgn * (n \div g), d |-> sgn * (d \div g)]

RInt(k) == [n |-> k, d |-> 1]

\* x * y, cancelling across before multiplying.
RMul(x, y) ==
  LET g1 == GCD(Abs(x.n), y.d)
      g2 == GCD(Abs(y.n), x.d)
  IN Rat((x.n \div g1) * (y.n \div g2), (x.d \div g2) * (y.d \div g1))

\* x / y for y # 0.
RDiv(x, y) == RMul(x, Rat(y.d, y.n))

\* The integer nearest to x, a tie going to the even one (Python round()).
RoundHalfEven(x) ==
  LET q == x.n \div x.d
      r == x.n - q * x.d
  IN IF 2 * r < x.d THEN q
     ELSE IF 2 * r > x.d THEN q + 1
     ELSE IF q % 2 = 0 THEN q ELSE q + 1

\* round(x, 2)
Round2(x) == Rat(RoundHalfEven(RMul(x, RInt(100))), 100)

\* ------------------------------------------------------------------------
\* JSON values of the registry business-data service
\* ------------------------------------------------------------------------
\* A scalar field: t is "absent" (no such key), "null", "num" (n) or "str" (s).
Scalar(t, n, s) == [t |-> t, n |-> n, s |-> s]

AbsentField == Scalar("absent", 0, <<>>)

NullField == Scalar("null", 0, <<>>)

NumField(k) == Scalar("num", k, <<>>)

StrField(str) == Scalar("str", 0, str)

\* A value: t is "null", "num" (n), "str" (s) or "dict" (its keys total and
\* non_command, each a scalar field).
JNull == [t |-> "null", n |-> 0, s |-> <<>>, total |-> AbsentField, non_command |-> AbsentField]

JNum(k) == [t |-> "num", n |-> k, s |-> <<>>, total |-> AbsentField, non_command |-> AbsentField]

JStr(str) == [t |-> "str", n |-> 0, s |-> str, total |-> AbsentField, non_command |-> AbsentField]

JDict(tot, nc) == [t |-> "dict", n |-> 0, s |-> <<>>, total |-> tot, non_command |-> nc]

\* A list of k elements (only its length matters to the code).
JList(k) == [t |-> "list", n |-> k, s |-> <<>>, total |-> AbsentField, non_command |-> AbsentField]

Digits == << "0", "1", "2", "3", "4", "5", "6", "7", "8", "9" >>

IsDigit(c) == \E i \in 1..Len(Digits) : Digits[i] = c

DigitValue(c) == (CHOOSE i \in 1..Len(Digits) : Digits[i] = c) - 1

RECURSIVE DigitsValue(_, _)
DigitsValue(str, acc) ==
  IF str = <<>> THEN acc
  ELSE DigitsValue(Tail(str), 10 * acc + DigitValue(Head(str)))

\* float(x) of a scalar field: a number is itself, a string of digits is the
\* number it spells, any other string raises ValueError, None raises TypeError.
FloatOf(f) ==
  IF f.t = "num" THEN [ok |-> TRUE, v |-> f.n, exc |-> ""]
  ELSE IF f.t = "str"
  THEN IF f.s # <<>> /\ \A i \in 1..Len(f.s) : IsDigit(f.s[i])
       THEN [ok |-> TRUE, v |-> DigitsValue(f.s, 0), exc |-> ""]
       ELSE [ok |-> FALSE, v |-> 0, exc |-> "ValueError"]
  ELSE [ok |-> FALSE, v |-> 0, exc |-> "TypeError"]

\* extract_mcm(value)
ExtractMcm(value) ==
  IF value.t = "null" THEN [ok |-> TRUE, v |-> 0, exc |-> ""]
  ELSE IF value.t = "num" THEN [ok |-> TRUE, v |-> value.n, exc |-> ""]
  ELSE IF value.t = "dict"
  THEN IF value.total.t # "absent" THEN FloatOf(value.total)
       ELSE IF value.non_command.t # "absent" THEN FloatOf(value.non_command)
       ELSE [ok |-> TRUE, v |-> 0, exc |-> ""]
  ELSE [ok |-> TRUE, v |-> 0, exc |-> ""]

RECURSIVE DecimalOf(_)
DecimalOf(k) ==
  IF k < 10 THEN << Digits[k + 1] >>
  ELSE Append(DecimalOf(k \div 10), Digits[(k % 10) + 1])

\* str(x) of a scalar field holding a string or a non-negative integer.
StrOf(f) == IF f.t = "str" THEN f.s ELSE DecimalOf(f.n)

\* Python truthiness of a scalar field that is present.
FieldTruthy(f) ==
  \/ f.t = "num" /\ f.n # 0
  \/ f.t = "str" /\ f.s # <<>>

\* Python truthiness of a value ({} and [] are falsy).
ValueTruthy(value) ==
  \/ value.t = "num" /\ value.n # 0
  \/ value.t = "str" /\ value.s # <<>>
  \/ value.t = "list" /\ value.n # 0
  \/ value.t = "dict" /\ (value.total.t # "absent" \/ value.non_command.t # "absent")

S_Critical == << "C", "r", "i", "t", "i", "c", "a", "l" >>

S_Safe == << "S", "a", "f", "e" >>

S_SemiCritical == << "S", "e", "m", "i", "-", "C", "r", "i", "t", "i", "c", "a", "l" >>

S_OverExploited == << "O", "v", "e", "r", "-", "e", "x", "p", "l", "o", "i", "t", "e", "d" >>

\* Variant of extract_category: the string is returned as delivered, not
\* title-cased.
ExtractCategoryVerbatim(cat) ==
  IF ~ValueTruthy(cat) THEN S_Critical
  ELSE IF cat.t = "str" THEN cat.s
  ELSE IF cat.t = "dict" /\ cat.total.t # "absent" /\ FieldTruthy(cat.total)
  THEN StrOf(cat.total)
  ELSE IF cat.t = "dict" /\ cat.non_command.t # "absent" /\ FieldTruthy(cat.non_command)
  THEN StrOf(cat.non_command)
  ELSE S_Critical

\* Variant of extract_category: "non_command" is preferred to "total".
ExtractCategoryNonCommandFirst(cat) ==
  IF ~ValueTruthy(cat) THEN S_Critical
  ELSE IF cat.t = "str" THEN StrTitle(cat.s)
  ELSE IF cat.t = "dict" /\ cat.non_command.t # "absent" /\ FieldTruthy(cat.non_command)
  THEN StrTitle(StrOf(cat.non_command))
  ELSE IF cat.t = "dict" /\ cat.total.t # "absent" /\ FieldTruthy(cat.total)
  THEN StrTitle(StrOf(cat.total))
  ELSE S_Critical

\* extract_category(cat)
ExtractCategory(cat) ==
  IF ~ValueTruthy(cat) THEN S_Critical
  ELSE IF cat.t = "str" THEN StrTitle(cat.s)
  ELSE IF cat.t = "dict" /\ cat.total.t # "absent" /\ FieldTruthy(cat.total)
  THEN StrTitle(StrOf(cat.total))
  ELSE IF cat.t = "dict" /\ cat.non_command.t # "absent" /\ FieldTruthy(cat.non_command)
  THEN StrTitle(StrOf(cat.non_command))
  ELSE S_Critical

\* ------------------------------------------------------------------------
\* Rule constants
\* ------------------------------------------------------------------------
\* CATEGORY_FACTOR.get(category, 0.10), in percent
CategoryFactorPct(category) ==
  IF category = S_Safe THEN 40
  ELSE IF category = S_SemiCritical THEN 25
  ELSE IF category = S_Critical THEN 10
  ELSE IF category = S_OverExploited THEN 5
  ELSE 10

\* LITHOLOGY_FACTOR.get(lithology_code, 0.50), in percent
LithologyFactorPct(lithology_code) ==
  IF lithology_code \in 0..5 THEN 100 ELSE 50

\* LIFECYCLE_FACTOR, in percent
LifecycleFactorPct == 70

\* Variant of slope_factor: the table the function's comment holds.
SlopeFactorTable(slope_deg) ==
  IF slope_deg <= 2 THEN 100
  ELSE IF slope_deg <= 5 THEN 85
  ELSE IF slope_deg <= 10 THEN 65
  ELSE 40

\* slope_factor(slope_deg), in percent
SlopeFactorPct(slope_deg) == 100

Pct(k) == Rat(k, 100)

\* ------------------------------------------------------------------------
\* Outcomes of the pipeline function
\* ------------------------------------------------------------------------
NoBasis ==
  [level_used |-> "", category |-> <<>>, farm_area_ares |-> 0,
   taluka_area_sq_km |-> 0, lithology_code |-> 0, lifecycle |-> ""]

\* Nothing returned yet.
Pending == [kind |-> "pending", msg |-> "", value |-> RInt(0), basis |-> NoBasis]

\* return {"error": msg}
ErrorObject(msg) == [kind |-> "error", msg |-> msg, value |-> RInt(0), basis |-> NoBasis]

\* An exception of class exc leaves the function.
Raised(exc) == [kind |-> "raise", msg |-> exc, value |-> RInt(0), basis |-> NoBasis]

\* return {"groundwater_available_litres": value, "basis": basis}
BalanceResult(value, basis) == [kind |-> "result", msg |-> "", value |-> value, basis |-> basis]

MsgNoTaluka == "Taluka could not be resolved from coordinates"

MsgNoArea == "Taluka area not found"

MsgNoIngres == "No INGRES groundwater data available"

\* shorten_ingres_response(api_response): the projection of the first entry,
\* or None for an empty sequence.
ShortenIngresResponse(api_response) ==
  IF api_response = <<>> THEN <<>>
  ELSE << [locationName |-> api_response[1].locationName,
           availabilityForFutureUse |-> api_response[1].availabilityForFutureUse,
           category |-> api_response[1].category] >>

\* Variant of the arithmetic: LIFECYCLE_FACTOR is left out of the product.
EntitlementNoLifecycle(farm_area_ares, taluka_area_sq_km, lithology_code, slope_deg, level_used, ingres_data) ==
  LET gw == ExtractMcm(ingres_data[1].availabilityForFutureUse)
      taluka_gw_litres == RMul(RMul(RInt(gw.v), RInt(1000000)), RInt(1000))
      taluka_area_ares == RMul(RInt(taluka_area_sq_km), RInt(10000))
      area_fraction == RDiv(RInt(farm_area_ares), taluka_area_ares)
      farm_entitlement == RMul(taluka_gw_litres, area_fraction)
      category == ExtractCategory(ingres_data[1].category)
      final_litres ==
        RMul(RMul(RMul(farm_entitlement, Pct(CategoryFactorPct(category))),
                  Pct(LithologyFactorPct(lithology_code))),
             Pct(SlopeFactorPct(slope_deg)))
  IN IF ingres_data = <<>> THEN Raised("AttributeError")
     ELSE IF ~gw.ok THEN Raised(gw.exc)
     ELSE IF taluka_area_sq_km = 0 THEN Raised("ZeroDivisionError")
     ELSE BalanceResult(
            RMul(Round2(final_litres), RInt(100)),
            [level_used |-> level_used, category |-> category,
             farm_area_ares |-> farm_area_ares,
             taluka_area_sq_km |-> taluka_area_sq_km,
             lithology_code |-> lithology_code, lifecycle |-> "single crop"])

\* Steps 3 and 4 of calculate_groundwater_balance and its return value, given
\* the shortened service response ingres_data (None or one record).  An
\* availability is at most 2 MCM, so that its litres fit TLC's 32-bit integers.
Entitlement(farm_area_ares, taluka_area_sq_km, lithology_code, slope_deg, level_used, ingres_data) ==
  LET gw == ExtractMcm(ingres_data[1].availabilityForFutureUse)
      taluka_gw_litres == RMul(RMul(RInt(gw.v), RInt(1000000)), RInt(1000))
      taluka_area_ares == RMul(RInt(taluka_area_sq_km), RInt(10000))
      area_fraction == RDiv(RInt(farm_area_ares), taluka_area_ares)
      farm_entitlement == RMul(taluka_gw_litres, area_fraction)
      category == ExtractCategory(ingres_data[1].category)
      final_litres ==
        RMul(RMul(RMul(RMul(farm_entitlement, Pct(CategoryFactorPct(category))),
                       Pct(LithologyFactorPct(lithology_code))),
                  Pct(SlopeFactorPct(slope_deg))),
             Pct(LifecycleFactorPct))
  IN IF ingres_data = <<>> THEN Raised("AttributeError")
     ELSE IF ~gw.ok THEN Raised(gw.exc)
     ELSE IF taluka_area_sq_km = 0 THEN Raised("ZeroDivisionError")
     ELSE BalanceResult(
            RMul(Round2(final_litres), RInt(100)),
            [level_used |-> level_used, category |-> category,
             farm_area_ares |-> farm_area_ares,
             taluka_area_sq_km |-> taluka_area_sq_km,
             lithology_code |-> lithology_code, lifecycle |-> "single crop"])

\* ------------------------------------------------------------------------
\* Reference data: a sample of the datasets the process loads
\* ------------------------------------------------------------------------
N_Pune == << "P", "u", "n", "e" >>

N_PUNE == << "P", "U", "N", "E" >>

N_pune == << "p", "u", "n", "e" >>

N_Karad == << "K", "a", "r", "a", "d" >>

N_Karat == << "K", "a", "r", "a", "t" >>

N_Karud == << "K", "a", "r", "u", "d" >>

N_Akola == << "A", "k", "o", "l", "a" >>

N_Mulsi == << "M", "u", "l", "s", "i" >>

N_Sakri == << "S", "a", "k", "r", "i" >>

N_Nagar == << "N", "a", "g", "a", "r" >>

N_Dhule == << "D", "h", "u", "l", "e" >>

N_DHULE == << "D", "H", "U", "L", "E" >>

N_Latur == << "L", "a", "t", "u", "r" >>

\* A polygon of a boundary layer: its name attribute and the grid cells
\* <<lon, lat>> it contains.
Polygon(name, cells) == [name |-> name, cells |-> cells]

\* taluka_gdf (NAME_3), in stored order
TalukaLayer ==
  << Polygon(N_Pune, {<<0, 0>>, <<1, 0>>, <<0, 1>>}),
     Polygon(N_Karad, {<<1, 0>>, <<2, 0>>}),
     Polygon(N_Akola, {<<1, 1>>, <<2, 1>>, <<3, 1>>}),
     Polygon(N_Mulsi, {<<0, 2>>}),
     Polygon(N_Sakri, {<<1, 2>>, <<2, 2>>}),
     Polygon(N_Nagar, {<<3, 2>>}) >>

\* district_gdf (NAME_2), in stored order
DistrictLayer ==
  << Polygon(N_Dhule, {<<2, 2>>, <<3, 2>>, <<2, 3>>, <<3, 3>>}),
     Polygon(N_Pune, {<<0, 0>>, <<1, 0>>, <<0, 1>>, <<0, 2>>, <<1, 2>>}),
     Polygon(N_Latur, {<<2, 0>>, <<2, 1>>, <<3, 0>>}) >>

\* taluka_areas.json
TalukaAreas ==
  << [sdtname |-> N_pune, area_km2 |-> 100],
     [sdtname |-> N_Karud, area_km2 |-> 300],
     [sdtname |-> N_Sakri, area_km2 |-> 200],
     [sdtname |-> N_Akola, area_km2 |-> 150],
     [sdtname |-> N_Nagar, area_km2 |-> 0] >>

\* taluka_areas.json as somebody rewrites it while the process runs: the
\* same units, two areas changed, one of them to a negative number.
TalukaAreasEdited ==
  << [sdtname |-> N_pune, area_km2 |-> 250],
     [sdtname |-> N_Karud, area_km2 |-> 300],
     [sdtname |-> N_Sakri, area_km2 |-> 0 - 200],
     [sdtname |-> N_Akola, area_km2 |-> 150],
     [sdtname |-> N_Nagar, area_km2 |-> 0] >>

Location(name, type, uuid) == [locationName |-> name, locationType |-> type, locationUUID |-> uuid]

\* India_Ingris_Data_Complete.json
IngresData ==
  << Location(N_PUNE, "DISTRICT", 1),
     Location(N_Karat, "TALUK", 2),
     Location(N_DHULE, "DISTRICT", 3),
     Location(N_Pune, "TALUK", 4) >>

\* India_Ingris_Data_Complete.json after its first record is removed.
IngresDataEdited == Tail(IngresData)

\* The lithology raster: band 1 by row and column, and the cell of its
\* upper-left corner (row 0 is latitude RasterTop, column 0 is longitude
\* RasterLeft).
RasterBand == << << 1, 5 >>, << 7, 2 >>, << 1, 0 >> >>

RasterTop == 2

RasterLeft == 1

\* ------------------------------------------------------------------------
\* Stages
\* ------------------------------------------------------------------------
\* get_admin_from_latlon: the name of the first polygon of each layer that
\* contains the point, None where no polygon does.
FirstContaining(layer, lat, lon) ==
  LET rows == {i \in 1..Len(layer) : <<lon, lat>> \in layer[i].cells}
  IN IF rows = {} THEN <<>>
     ELSE << layer[CHOOSE i \in rows : \A j \in rows : i <= j].name >>

\* Variant of get_admin_from_latlon: the district name stands in for a
\* missing taluka.
GetAdminDistrictAsTaluka(lat, lon, taluka_gdf, district_gdf) ==
  [taluka |-> IF FirstContaining(taluka_gdf, lat, lon) # <<>>
              THEN FirstContaining(taluka_gdf, lat, lon)
              ELSE FirstContaining(district_gdf, lat, lon),
   district |-> FirstContaining(district_gdf, lat, lon)]

GetAdminFromLatLon(lat, lon, taluka_gdf, district_gdf) ==
  [taluka |-> FirstContaining(taluka_gdf, lat, lon),
   district |-> FirstContaining(district_gdf, lat, lon)]

ScoreCutoff == 70 * 100

\* Variant of get_taluka_area_sq_km: the fuzzy step has no cutoff.
GetTalukaAreaNearest(lowercasing, taluka_areas, taluka_name) ==
  LET exact == {i \in 1..Len(taluka_areas) :
                  StrLower(taluka_areas[i].sdtname) = StrLower(taluka_name)}
      names == [i \in 1..Len(taluka_areas) |-> taluka_areas[i].sdtname]
      match == ExtractOne(lowercasing, taluka_name, names, 0)
  IN IF exact # {}
     THEN << taluka_areas[CHOOSE i \in exact : \A j \in exact : i <= j].area_km2 >>
     ELSE IF match # <<>> THEN << taluka_areas[match[1].idx].area_km2 >>
     ELSE <<>>

\* get_taluka_area_sq_km(taluka_name): <<area_km2>> or None
GetTalukaAreaSqKm(lowercasing, taluka_areas, taluka_name) ==
  LET exact == {i \in 1..Len(taluka_areas) :
                  StrLower(taluka_areas[i].sdtname) = StrLower(taluka_name)}
      names == [i \in 1..Len(taluka_areas) |-> taluka_areas[i].sdtname]
      match == ExtractOne(lowercasing, taluka_name, names, ScoreCutoff)
  IN IF exact # {}
     THEN << taluka_areas[CHOOSE i \in exact : \A j \in exact : i <= j].area_km2 >>
     ELSE IF match # <<>> THEN << taluka_areas[match[1].idx].area_km2 >>
     ELSE <<>>

\* sample_raster: ds.index gives the row and column of the cell, unchecked;
\* the array read accepts an index i with -size <= i < size, a negative one
\* counting from the end, and raises IndexError for any other.
SampleRaster(band, lat, lon) ==
  LET h == Len(band)
      w == Len(band[1])
      row == RasterTop - lat
      col == lon - RasterLeft
  IN IF row >= h \/ row < 0 - h \/ col >= w \/ col < 0 - w
     THEN [ok |-> FALSE, v |-> 0]
     ELSE [ok |-> TRUE,
           v |-> band[(IF row < 0 THEN row + h ELSE row) + 1]
                     [(IF col < 0 THEN col + w ELSE col) + 1]]

\* Variant of fetch_ingres_with_fallback: both names are matched up front.
FetchIngresBothLevels(lowercasing, ingres_data, taluka, district) ==
  LET tm == SearchByLocationName(lowercasing, ingres_data, taluka[1], ScoreCutoff)
      dm == SearchByLocationName(lowercasing, ingres_data, district[1], ScoreCutoff)
      tq == IF Truthy(taluka) THEN << taluka[1] >> ELSE <<>>
      dq == IF Truthy(district) THEN << district[1] >> ELSE <<>>
  IN IF Truthy(taluka) /\ tm # <<>>
     THEN [match |-> tm, level |-> "taluka", consulted |-> tq \o dq]
     ELSE IF Truthy(district) /\ dm # <<>>
     THEN [match |-> dm, level |-> "district", consulted |-> tq \o dq]
     ELSE [match |-> <<>>, level |-> "", consulted |-> tq \o dq]

\* Variant of fetch_ingres_with_fallback: the district is tried first.
FetchIngresCoarseFirst(lowercasing, ingres_data, taluka, district) ==
  LET tm == SearchByLocationName(lowercasing, ingres_data, taluka[1], ScoreCutoff)
      dm == SearchByLocationName(lowercasing, ingres_data, district[1], ScoreCutoff)
      tq == IF Truthy(taluka) THEN << taluka[1] >> ELSE <<>>
      dq == IF Truthy(district) THEN << district[1] >> ELSE <<>>
  IN IF Truthy(district) /\ dm # <<>>
     THEN [match |-> dm, level |-> "district", consulted |-> dq]
     ELSE IF Truthy(taluka) /\ tm # <<>>
     THEN [match |-> tm, level |-> "taluka", consulted |-> dq \o tq]
     ELSE [match |-> <<>>, level |-> "", consulted |-> dq \o tq]

\* fetch_ingres_with_fallback(taluka, district): the match (or None), the
\* level it is tagged with, and the names handed to the matcher, in order.
FetchIngresWithFallback(lowercasing, ingres_data, taluka, district) ==
  LET tm == SearchByLocationName(lowercasing, ingres_data, taluka[1], ScoreCutoff)
      dm == SearchByLocationName(lowercasing, ingres_data, district[1], ScoreCutoff)
      tq == IF Truthy(taluka) THEN << taluka[1] >> ELSE <<>>
      dq == IF Truthy(district) THEN << district[1] >> ELSE <<>>
  IN IF Truthy(taluka) /\ tm # <<>>
     THEN [match |-> tm, level |-> "taluka", consulted |-> tq]
     ELSE IF Truthy(district) /\ dm # <<>>
     THEN [match |-> dm, level |-> "district", consulted |-> tq \o dq]
     ELSE [match |-> <<>>, level |-> "", consulted |-> tq \o dq]

\* ------------------------------------------------------------------------
\* External services
\* ------------------------------------------------------------------------
C_safe == << "s", "a", "f", "e" >>

C_critical == << "c", "r", "i", "t", "i", "c", "a", "l" >>

C_semi_critical == << "s", "e", "m", "i", "-", "c", "r", "i", "t", "i", "c", "a", "l" >>

C_saline == << "s", "a", "l", "i", "n", "e" >>

\* Shapes of availabilityForFutureUse the business-data service delivers.
AvailabilitySamples ==
  { JNum(1), JNum(2), JNull,
    JDict(NumField(2), NumField(1)),
    JDict(AbsentField, NumField(1)),
    JDict(StrField(<< "n", "a" >>), AbsentField) }

\* Shapes of category the business-data service delivers.
CategorySamples ==
  { JStr(C_safe), JStr(S_SemiCritical), JStr(S_OverExploited), JStr(C_saline), JNull,
    JDict(StrField(C_critical), AbsentField),
    JDict(NullField, StrField(C_semi_critical)) }

Entry(name, availability, category) ==
  [locationName |-> name, availabilityForFutureUse |-> availability, category |-> category]

\* What requests.post(...) and r.raise_for_status() can come to for the
\* record ingres_match: a transport failure, a non-success status, or the
\* decoded body, a sequence of entries.
ServiceOutcomes(ingres_match) ==
  { [status |-> "transport_error", body |-> <<>>],
    [status |-> "http_error", body |-> <<>>],
    [status |-> "ok", body |-> <<>>] }
  \cup { [status |-> "ok", body |-> << Entry(ingres_match.locationName, a, c) >>] :
           a \in AvailabilitySamples, c \in CategorySamples }
  \cup { [status |-> "ok",
          body |-> << Entry(ingres_match.locationName, JNum(1), JStr(C_safe)),
                      Entry(ingres_match.locationName, JNum(2), JStr(C_critical)) >>] }

\* What get_slope can come to: the elevation of the first result, or an
\* exception (the request fails, or the body has no results).
SlopeOutcomes ==
  { [ok |-> TRUE, v |-> 12, exc |-> ""],
    [ok |-> TRUE, v |-> 560, exc |-> ""],
    [ok |-> FALSE, v |-> 0, exc |-> "RequestException"],
    [ok |-> FALSE, v |-> 0, exc |-> "KeyError"] }

\* What the services hold for one request: the outcome of get_slope and, of
\* the business-data call, its status and the availability and category of
\* the entry it delivers.
Answers(slope, status, availability, category) == [slope |-> slope, status |-> status, availability |-> availability, category |-> category]

\* An answer of the business-data service that is never asked for.
NoAnswer == [status |-> "", body |-> <<>>]

\* The answer of the business-data service to the POST for ingres_match.
AnswerFor(answers, ingres_match) ==
  [status |-> answers.status,
   body |-> IF answers.status = "ok"
            THEN << Entry(ingres_match.locationName, answers.availability, answers.category) >>
            ELSE <<>>]

\* ------------------------------------------------------------------------
\* The pipeline functions, from call to return
\* ------------------------------------------------------------------------
\* calculate_groundwater_balance: ingres_data is the registry file as the
\* call finds it, answer what the business-data service answers to it.
CalculateGroundwaterBalance(lowercasing, lat, lon, farm_area_ares, taluka_area_sq_km, lithology_code, slope_deg, taluka_gdf, district_gdf, ingres_data, answer) ==
  LET admin == GetAdminFromLatLon(lat, lon, taluka_gdf, district_gdf)
      resolved == FetchIngresWithFallback(lowercasing, ingres_data, admin.taluka, admin.district)
  IN IF resolved.match = <<>> THEN ErrorObject(MsgNoIngres)
     ELSE IF answer.status = "http_error" THEN Raised("HTTPError")
     ELSE IF answer.status # "ok" THEN Raised("RequestException")
     ELSE Entitlement(farm_area_ares, taluka_area_sq_km, lithology_code, slope_deg,
                      resolved.level, ShortenIngresResponse(answer.body))

\* groundwater_balance_from_api_input: taluka_areas and ingres_data are the
\* two files as the call finds them, answers what the services answer to it.
GroundwaterBalanceFromApiInput(lowercasing, lat, lon, farm_area_ares, taluka_areas, ingres_data, answers) ==
  LET admin == GetAdminFromLatLon(lat, lon, TalukaLayer, DistrictLayer)
      taluka_area_sq_km == GetTalukaAreaSqKm(lowercasing, taluka_areas, admin.taluka[1])
      lithology == SampleRaster(RasterBand, lat, lon)
      ingres_match ==
        FetchIngresWithFallback(lowercasing, ingres_data, admin.taluka, admin.district).match
      answer == IF ingres_match = <<>> THEN NoAnswer ELSE AnswerFor(answers, ingres_match[1])
  IN IF ~Truthy(admin.taluka) THEN ErrorObject(MsgNoTaluka)
     ELSE IF taluka_area_sq_km = <<>> \/ taluka_area_sq_km[1] = 0 THEN ErrorObject(MsgNoArea)
     ELSE IF ~lithology.ok THEN Raised("IndexError")
     ELSE IF ~answers.slope.ok THEN Raised(answers.slope.exc)
     ELSE CalculateGroundwaterBalance(lowercasing, lat, lon, farm_area_ares,
                                      taluka_area_sq_km[1], lithology.v, answers.slope.v,
                                      TalukaLayer, DistrictLayer, ingres_data, answer)

\* ------------------------------------------------------------------------
\* State
\* ------------------------------------------------------------------------
VARIABLES
  pc,             \* position of the request in gw_balance and the functions it calls
  lowercasing,    \* whether the installed rapidfuzz lower-cases before scoring
  req,            \* the request body: latitude, longitude, farm_area_ares
  admin,          \* admin of the function that runs: taluka and district
  taluka_area,    \* taluka_area_sq_km (None or a number)
  lithology_code, \* lithology_code
  slope_deg,      \* slope_deg
  resolved,       \* ingres_match, level_used and the names given to the matcher
  fetched,        \* the locuuid posted and what the service answered
  outcome,        \* what groundwater_balance_from_api_input came to
  calls,          \* the stages invoked for this request, in order
  response,       \* the HTTP response sent
  call,           \* a helper called on its own: its name and arguments
  ret,            \* and what it returned
  taluka_areas_json, \* the content of the file taluka_areas.json
  sched           \* requests served at the same time: the thread that runs, the
                  \* answers the services hold for its request, the other threads

vars ==
  << pc, lowercasing, req, admin, taluka_area, lithology_code, slope_deg,
     resolved, fetched, outcome, calls, response, call, ret,
     taluka_areas_json, sched >>

NoAdmin == [taluka |-> <<>>, district |-> <<>>]

NoResolved == [match |-> <<>>, level |-> "", consulted |-> <<>>]

NoFetched == [locuuid |-> 0, status |-> "", body |-> <<>>]

NoResponse == [status |-> 0, body |-> Pending]

NoRequest == [latitude |-> 0, longitude |-> 0, farm_area_ares |-> 0]

NoCall == [fn |-> ""]

NoRet == [fn |-> ""]

NoAnswers == Answers([ok |-> FALSE, v |-> 0, exc |-> ""], "", JNull, JNull)

\* One request at a time: no other thread.
NoSched == [tid |-> 0, answers |-> NoAnswers, parked |-> <<>>]

Coords == 0..MaxCoord

FarmAreas == 1..MaxFarmArea

\* The request state of a process that has served nothing yet.
RequestIdle ==
  /\ pc = "idle"
  /\ req = NoRequest
  /\ admin = NoAdmin
  /\ taluka_area = <<>>
  /\ lithology_code = 0
  /\ slope_deg = 0
  /\ resolved = NoResolved
  /\ fetched = NoFetched
  /\ outcome = Pending
  /\ calls = <<>>
  /\ response = NoResponse

\* ------------------------------------------------------------------------
\* Helpers called on their own, with arguments of any shape
\* ------------------------------------------------------------------------
SeqsUpTo(S, n) == UNION { [1..k -> S] : k \in 0..n }

LocationPool ==
  { Location(N_PUNE, "DISTRICT", 1), Location(N_Karat, "TALUK", 2),
    Location(N_DHULE, "DISTRICT", 3), Location(N_Pune, "TALUK", 4),
    Location(N_Akola, "TALUK", 5) }

QueryPool == { N_Pune, N_pune, N_PUNE, N_Karad, N_Karat, N_Mulsi }

CutoffPool == { 0, ScoreCutoff, 100 * 100 }

\* search_by_location_name(locations, query, score_cutoff)
SearchCalls ==
  { [fn |-> "search_by_location_name", locations |-> l, query |-> q, score_cutoff |-> c] :
      l \in SeqsUpTo(LocationPool, MaxLocations), q \in QueryPool, c \in CutoffPool }

OptionalNames ==
  { <<>>, << <<>> >>, << N_Pune >>, << N_Karad >>, << N_Sakri >>, << N_Dhule >>, << N_Akola >> }

\* fetch_ingres_with_fallback(taluka, district), the registry file holding
\* the first k records of the sample
ResolverCalls ==
  { [fn |-> "fetch_ingres_with_fallback", ingres_data |-> SubSeq(IngresData, 1, k),
     taluka |-> t, district |-> d] :
      k \in 0..Len(IngresData), t \in OptionalNames, d \in OptionalNames }

\* The arithmetic of calculate_groundwater_balance on a shortened service
\* response
ComputeCalls ==
  { [fn |-> "compute", farm_area_ares |-> f, taluka_area_sq_km |-> a,
     lithology_code |-> l, slope_deg |-> sl, level_used |-> lv, ingres_data |-> d] :
      f \in FarmAreas, a \in {0, 1, 100, 300}, l \in {0, 1, 5, 6, 255},
      sl \in {0, 12}, lv \in {"taluka", "district"},
      d \in { <<>> } \cup { << Entry(N_Pune, av, c) >> :
                              av \in AvailabilitySamples, c \in CategorySamples } }

S_na == << "n", "a" >>

\* extract_mcm(value), for values of every shape
ExtractMcmCalls ==
  { [fn |-> "extract_mcm", value |-> v] :
      v \in { JNull, JNum(0), JNum(7), JStr(<< "1", "2" >>), JStr(S_na), JList(0), JList(2),
              JDict(AbsentField, AbsentField), JDict(NumField(5), AbsentField),
              JDict(NumField(5), NumField(3)), JDict(AbsentField, NumField(3)),
              JDict(StrField(<< "5" >>), AbsentField), JDict(StrField(S_na), NumField(3)),
              JDict(NullField, NumField(3)), JDict(AbsentField, NullField),
              JDict(AbsentField, StrField(<<>>)) } }

\* extract_category(cat), for values of every shape
ExtractCategoryCalls ==
  { [fn |-> "extract_category", cat |-> v] :
      v \in { JNull, JStr(<<>>), JStr(C_semi_critical), JStr(C_safe), JStr(S_OverExploited),
              JStr(C_saline), JNum(0), JNum(3), JList(0), JList(1),
              JDict(AbsentField, AbsentField), JDict(StrField(C_safe), StrField(C_critical)),
              JDict(AbsentField, StrField(C_semi_critical)),
              JDict(NullField, StrField(C_safe)), JDict(StrField(<<>>), StrField(C_safe)),
              JDict(NumField(0), AbsentField), JDict(NumField(3), AbsentField),
              JDict(StrField(S_OverExploited), NullField),
              JDict(NullField, NullField) } }

\* calculate_groundwater_balance(lat, lon, farm_area_ares, taluka_area_sq_km,
\* lithology_code, slope_deg, taluka_gdf, district_gdf), called twice with the
\* same arguments
CalculateCalls ==
  { [fn |-> "calculate_groundwater_balance", lat |-> c[2], lon |-> c[1],
     farm_area_ares |-> 1, taluka_area_sq_km |-> 100, lithology_code |-> 1,
     slope_deg |-> 12] :
      c \in { << 0, 0 >>, << 2, 2 >>, << 3, 3 >> } }

\* The process after start-up: it serves requests.
InitServer ==
  /\ RequestIdle
  /\ lowercasing \in BOOLEAN
  /\ call = NoCall
  /\ ret = NoRet
  /\ taluka_areas_json = TalukaAreas
  /\ sched = NoSched

\* A helper is about to be called on its own.
InitHelper ==
  /\ RequestIdle
  /\ lowercasing \in BOOLEAN
  /\ \/ call \in SearchCalls
     \/ call \in ResolverCalls
     \/ call \in ComputeCalls
     \/ call \in ExtractMcmCalls
     \/ call \in ExtractCategoryCalls
     \/ call \in CalculateCalls
  /\ ret = NoRet
  /\ taluka_areas_json = TalukaAreas
  /\ sched = NoSched

Init == InitServer \/ InitHelper

RequestVars ==
  << pc, lowercasing, req, admin, taluka_area, lithology_code, slope_deg,
     resolved, fetched, outcome, calls, response >>

CallSearch ==
  /\ call.fn = "search_by_location_name"
  /\ ret.fn = ""
  /\ ret' = [fn |-> call.fn,
             match |-> SearchByLocationName(lowercasing, call.locations, call.query,
                                            call.score_cutoff)]
  /\ UNCHANGED << RequestVars, call, taluka_areas_json, sched >>

CallResolver ==
  /\ call.fn = "fetch_ingres_with_fallback"
  /\ ret.fn = ""
  /\ ret' = [fn |-> call.fn,
             result |-> FetchIngresWithFallback(lowercasing, call.ingres_data,
                                                call.taluka, call.district)]
  /\ UNCHANGED << RequestVars, call, taluka_areas_json, sched >>

CallCompute ==
  /\ call.fn = "compute"
  /\ ret.fn = ""
  /\ ret' = [fn |-> call.fn,
             outcome |-> Entitlement(call.farm_area_ares, call.taluka_area_sq_km,
                                     call.lithology_code, call.slope_deg,
                                     call.level_used, call.ingres_data)]
  /\ UNCHANGED << RequestVars, call, taluka_areas_json, sched >>

CallExtractMcm ==
  /\ call.fn = "extract_mcm"
  /\ ret.fn = ""
  /\ ret' = [fn |-> call.fn, result |-> ExtractMcm(call.value)]
  /\ UNCHANGED << RequestVars, call, taluka_areas_json, sched >>

CallExtractCategory ==
  /\ call.fn = "extract_category"
  /\ ret.fn = ""
  /\ ret' = [fn |-> call.fn, category |-> ExtractCategory(call.cat)]
  /\ UNCHANGED << RequestVars, call, taluka_areas_json, sched >>

\* One of the two invocations of calculate_groundwater_balance: it finds the
\* registry file as it is then, and the service answers as it does then.
CallCalculate ==
  /\ call.fn = "calculate_groundwater_balance"
  /\ (IF ret.fn = "" THEN 0 ELSE Len(ret.results)) < 2
  /\ \E ingres_data \in {IngresData, IngresDataEdited} :
       LET admin_ == GetAdminFromLatLon(call.lat, call.lon, TalukaLayer, DistrictLayer)
           ingres_match ==
             FetchIngresWithFallback(lowercasing, ingres_data, admin_.taluka, admin_.district).match
       IN \E answer \in (IF ingres_match = <<>> THEN {NoAnswer}
                          ELSE ServiceOutcomes(ingres_match[1])) :
            ret' = [fn |-> call.fn,
                    results |->
                      Append(IF ret.fn = "" THEN <<>> ELSE ret.results,
                             CalculateGroundwaterBalance(
                               lowercasing, call.lat, call.lon, call.farm_area_ares,
                               call.taluka_area_sq_km, call.lithology_code, call.slope_deg,
                               TalukaLayer, DistrictLayer, ingres_data, answer))]
  /\ UNCHANGED << RequestVars, call, taluka_areas_json, sched >>

\* Somebody rewrites taluka_areas.json while the process serves requests.
EditAreaFile ==
  /\ call.fn = ""
  /\ sched = NoSched
  /\ taluka_areas_json = TalukaAreas
  /\ taluka_areas_json' = TalukaAreasEdited
  /\ UNCHANGED << RequestVars, call, ret, sched >>

\* gw_balance reads the request body and calls
\* groundwater_balance_from_api_input.
Receive ==
  /\ call.fn = ""
  /\ pc \in {"idle", "responded"}
  /\ \E lat \in Coords, lon \in Coords, farm \in FarmAreas :
       req' = [latitude |-> lat, longitude |-> lon, farm_area_ares |-> farm]
  /\ pc' = "boundary"
  /\ admin' = NoAdmin
  /\ taluka_area' = <<>>
  /\ lithology_code' = 0
  /\ slope_deg' = 0
  /\ resolved' = NoResolved
  /\ fetched' = NoFetched
  /\ outcome' = Pending
  /\ calls' = <<>>
  /\ response' = NoResponse
  /\ UNCHANGED << lowercasing, call, ret, taluka_areas_json, sched >>

\* Step 1 of groundwater_balance_from_api_input: admin resolution.
StepBoundaryIndex ==
  /\ pc = "boundary"
  /\ admin' = GetAdminFromLatLon(req.latitude, req.longitude, TalukaLayer, DistrictLayer)
  /\ calls' = Append(calls, "boundary")
  /\ IF ~Truthy(admin'.taluka)
     THEN outcome' = ErrorObject(MsgNoTaluka) /\ pc' = "respond"
     ELSE outcome' = outcome /\ pc' = "area"
  /\ UNCHANGED << lowercasing, req, taluka_area, lithology_code, slope_deg,
                  resolved, fetched, response, call, ret, taluka_areas_json, sched >>

\* Step 2: taluka area lookup, in the file as it is now.
StepAreaRegistry ==
  /\ pc = "area"
  /\ taluka_area' = GetTalukaAreaSqKm(lowercasing, taluka_areas_json, admin.taluka[1])
  /\ calls' = Append(calls, "area")
  /\ IF taluka_area' = <<>> \/ taluka_area'[1] = 0
     THEN outcome' = ErrorObject(MsgNoArea) /\ pc' = "respond"
     ELSE outcome' = outcome /\ pc' = "raster"
  /\ UNCHANGED << lowercasing, req, admin, lithology_code, slope_deg,
                  resolved, fetched, response, call, ret, taluka_areas_json, sched >>

\* Step 3: lithology from raster.
StepSampleRaster ==
  /\ pc = "raster"
  /\ calls' = Append(calls, "raster")
  /\ LET r == SampleRaster(RasterBand, req.latitude, req.longitude)
     IN IF r.ok
        THEN lithology_code' = r.v /\ outcome' = outcome /\ pc' = "slope"
        ELSE lithology_code' = lithology_code /\ outcome' = Raised("IndexError")
             /\ pc' = "respond"
  /\ UNCHANGED << lowercasing, req, admin, taluka_area, slope_deg,
                  resolved, fetched, response, call, ret, taluka_areas_json, sched >>

\* Variant of step 4: a failed call is retried once.
StepGetSlopeRetry ==
  /\ pc = "slope"
  /\ \E r \in SlopeOutcomes, r2 \in SlopeOutcomes :
       IF r.ok
       THEN /\ calls' = Append(calls, "slope")
            /\ slope_deg' = r.v /\ outcome' = outcome /\ pc' = "calc_admin"
       ELSE /\ calls' = calls \o << "slope", "slope" >>
            /\ IF r2.ok
               THEN slope_deg' = r2.v /\ outcome' = outcome /\ pc' = "calc_admin"
               ELSE slope_deg' = slope_deg /\ outcome' = Raised(r2.exc) /\ pc' = "respond"
  /\ UNCHANGED << lowercasing, req, admin, taluka_area, lithology_code,
                  resolved, fetched, response, call, ret, taluka_areas_json, sched >>

\* Step 4: slope.
StepGetSlope ==
  /\ pc = "slope"
  /\ calls' = Append(calls, "slope")
  /\ \E r \in SlopeOutcomes :
       IF r.ok
       THEN slope_deg' = r.v /\ outcome' = outcome /\ pc' = "calc_admin"
       ELSE slope_deg' = slope_deg /\ outcome' = Raised(r.exc) /\ pc' = "respond"
  /\ UNCHANGED << lowercasing, req, admin, taluka_area, lithology_code,
                  resolved, fetched, response, call, ret, taluka_areas_json, sched >>

\* Step 5, calculate_groundwater_balance, its own step 1: admin resolution,
\* once more, on the same coordinates.
StepCalcAdmin ==
  /\ pc = "calc_admin"
  /\ admin' = GetAdminFromLatLon(req.latitude, req.longitude, TalukaLayer, DistrictLayer)
  /\ calls' = Append(calls, "boundary")
  /\ pc' = "resolver"
  /\ UNCHANGED << lowercasing, req, taluka_area, lithology_code, slope_deg,
                  resolved, fetched, outcome, response, call, ret, taluka_areas_json, sched >>

\* calculate_groundwater_balance, step 2: fetch_ingres_with_fallback.
StepResolver ==
  /\ pc = "resolver"
  /\ resolved' = FetchIngresWithFallback(lowercasing, IngresData, admin.taluka, admin.district)
  /\ calls' = Append(calls, "resolver")
  /\ IF resolved'.match = <<>>
     THEN outcome' = ErrorObject(MsgNoIngres) /\ pc' = "respond"
     ELSE outcome' = outcome /\ pc' = "fetcher"
  /\ UNCHANGED << lowercasing, req, admin, taluka_area, lithology_code, slope_deg,
                  fetched, response, call, ret, taluka_areas_json, sched >>

\* Variant of fetch_ingres_business_data: a failed call is issued once more.
StepFetcherRetry ==
  /\ pc = "fetcher"
  /\ \E r \in ServiceOutcomes(resolved.match[1]), r2 \in ServiceOutcomes(resolved.match[1]) :
       LET last == IF r.status = "ok" THEN r ELSE r2
       IN /\ calls' = IF r.status = "ok" THEN Append(calls, "fetcher")
                      ELSE calls \o << "fetcher", "fetcher" >>
          /\ fetched' = [locuuid |-> resolved.match[1].locationUUID,
                         status |-> last.status, body |-> last.body]
          /\ IF last.status = "ok"
             THEN outcome' = outcome /\ pc' = "entitlement"
             ELSE outcome' = Raised(IF last.status = "http_error" THEN "HTTPError"
                                    ELSE "RequestException")
                  /\ pc' = "respond"
  /\ UNCHANGED << lowercasing, req, admin, taluka_area, lithology_code, slope_deg,
                  resolved, response, call, ret, taluka_areas_json, sched >>

\* fetch_ingres_business_data(ingres_match)
StepFetcher ==
  /\ pc = "fetcher"
  /\ calls' = Append(calls, "fetcher")
  /\ \E r \in ServiceOutcomes(resolved.match[1]) :
       /\ fetched' = [locuuid |-> resolved.match[1].locationUUID,
                      status |-> r.status, body |-> r.body]
       /\ IF r.status = "ok"
          THEN outcome' = outcome /\ pc' = "entitlement"
          ELSE outcome' = Raised(IF r.status = "http_error" THEN "HTTPError"
                                 ELSE "RequestException")
               /\ pc' = "respond"
  /\ UNCHANGED << lowercasing, req, admin, taluka_area, lithology_code, slope_deg,
                  resolved, response, call, ret, taluka_areas_json, sched >>

\* shorten_ingres_response, steps 3 and 4 and the structured output.
StepEntitlement ==
  /\ pc = "entitlement"
  /\ calls' = Append(calls, "calculator")
  /\ outcome' = Entitlement(req.farm_area_ares, taluka_area[1], lithology_code, slope_deg,
                            resolved.level, ShortenIngresResponse(fetched.body))
  /\ pc' = "respond"
  /\ UNCHANGED << lowercasing, req, admin, taluka_area, lithology_code, slope_deg,
                  resolved, fetched, response, call, ret, taluka_areas_json, sched >>

MsgInternal == "Internal server error"

\* gw_balance returns jsonify(result).  An exception that left the function
\* is answered by the application: with the 500 handler's error object, or,
\* when the server runs in debug mode, with the debugger's traceback page.
Respond ==
  /\ pc = "respond"
  /\ \/ /\ outcome.kind \in {"result", "error"}
        /\ response' = [status |-> 200, body |-> outcome]
     \/ /\ outcome.kind = "raise"
        /\ response' = [status |-> 500, body |-> ErrorObject(MsgInternal)]
     \/ /\ outcome.kind = "raise"
        /\ response' = [status |-> 500,
                        body |-> [kind |-> "traceback", msg |-> outcome.msg,
                                  value |-> RInt(0), basis |-> NoBasis]]
  /\ pc' = "responded"
  /\ UNCHANGED << lowercasing, req, admin, taluka_area, lithology_code, slope_deg,
                  resolved, fetched, outcome, calls, call, ret, taluka_areas_json, sched >>

Next ==
  \/ Receive
  \/ StepBoundaryIndex
  \/ StepAreaRegistry
  \/ StepSampleRaster
  \/ StepGetSlope
  \/ StepCalcAdmin
  \/ StepResolver
  \/ StepFetcher
  \/ StepEntitlement
  \/ Respond
  \/ CallSearch
  \/ CallResolver
  \/ CallCompute
  \/ CallExtractMcm
  \/ CallExtractCategory
  \/ CallCalculate
  \/ EditAreaFile

Spec == Init /\ [][Next]_vars

\* ------------------------------------------------------------------------
\* Requests served at the same time
\* ------------------------------------------------------------------------
\* The server gives every request a thread.  The variables of the functions
\* are locals of the thread that runs them: pc, req, ..., response hold those
\* of the thread sched.tid, sched.parked those of the threads that wait.
Threads == 1..NumThreads

\* The locals of the running thread, and the answers held for its request.
Context ==
  [pc |-> pc, req |-> req, admin |-> admin, taluka_area |-> taluka_area,
   lithology_code |-> lithology_code, slope_deg |-> slope_deg, resolved |-> resolved,
   fetched |-> fetched, outcome |-> outcome, calls |-> calls, response |-> response,
   answers |-> sched.answers]

\* The locals of a thread whose gw_balance has read the request body.
Started(request, answers) ==
  [pc |-> "boundary", req |-> request, admin |-> NoAdmin, taluka_area |-> <<>>,
   lithology_code |-> 0, slope_deg |-> 0, resolved |-> NoResolved,
   fetched |-> NoFetched, outcome |-> Pending, calls |-> <<>>, response |-> NoResponse,
   answers |-> answers]

\* Requests in flight, each with what the services answer to it.
InFlight ==
  { Started([latitude |-> 0, longitude |-> 0, farm_area_ares |-> 1],
            Answers([ok |-> TRUE, v |-> 12, exc |-> ""], "ok", JNum(1), JStr(C_safe))),
    Started([latitude |-> 2, longitude |-> 2, farm_area_ares |-> 1],
            Answers([ok |-> TRUE, v |-> 560, exc |-> ""], "http_error", JNull, JNull)),
    Started([latitude |-> 2, longitude |-> 1, farm_area_ares |-> 2],
            Answers([ok |-> FALSE, v |-> 0, exc |-> "KeyError"], "ok", JNum(2), JNull)) }

InitConcurrent ==
  /\ lowercasing \in BOOLEAN
  /\ call = NoCall
  /\ ret = NoRet
  /\ taluka_areas_json = TalukaAreas
  /\ \E start \in [Threads -> InFlight] :
       /\ pc = start[1].pc
       /\ req = start[1].req
       /\ admin = start[1].admin
       /\ taluka_area = start[1].taluka_area
       /\ lithology_code = start[1].lithology_code
       /\ slope_deg = start[1].slope_deg
       /\ resolved = start[1].resolved
       /\ fetched = start[1].fetched
       /\ outcome = start[1].outcome
       /\ calls = start[1].calls
       /\ response = start[1].response
       /\ sched = [tid |-> 1, answers |-> start[1].answers,
                   parked |-> [t \in Threads \ {1} |-> start[t]]]

\* Variant of the thread switch: admin is a variable of the module, shared
\* by all threads.
SwitchSharedAdmin ==
  /\ sched.tid # 0
  /\ \E u \in DOMAIN sched.parked :
       LET c == sched.parked[u]
       IN /\ pc' = c.pc
          /\ req' = c.req
          /\ admin' = admin
          /\ taluka_area' = c.taluka_area
          /\ lithology_code' = c.lithology_code
          /\ slope_deg' = c.slope_deg
          /\ resolved' = c.resolved
          /\ fetched' = c.fetched
          /\ outcome' = c.outcome
          /\ calls' = c.calls
          /\ response' = c.response
          /\ sched' = [tid |-> u, answers |-> c.answers,
                       parked |-> [t \in (DOMAIN sched.parked \ {u}) \cup {sched.tid} |->
                                     IF t = sched.tid THEN Context ELSE sched.parked[t]]]
  /\ UNCHANGED << lowercasing, call, ret, taluka_areas_json >>

\* The running thread is suspended between two stages and another one
\* resumes where it was: every thread keeps its own locals.
Switch ==
  /\ sched.tid # 0
  /\ \E u \in DOMAIN sched.parked :
       LET c == sched.parked[u]
       IN /\ pc' = c.pc
          /\ req' = c.req
          /\ admin' = c.admin
          /\ taluka_area' = c.taluka_area
          /\ lithology_code' = c.lithology_code
          /\ slope_deg' = c.slope_deg
          /\ resolved' = c.resolved
          /\ fetched' = c.fetched
          /\ outcome' = c.outcome
          /\ calls' = c.calls
          /\ response' = c.response
          /\ sched' = [tid |-> u, answers |-> c.answers,
                       parked |-> [t \in (DOMAIN sched.parked \ {u}) \cup {sched.tid} |->
                                     IF t = sched.tid THEN Context ELSE sched.parked[t]]]
  /\ UNCHANGED << lowercasing, call, ret, taluka_areas_json >>

\* Step 4 for a request whose answers are held in sched.
StepGetSlopeAnswered ==
  /\ pc = "slope"
  /\ sched.tid # 0
  /\ calls' = Append(calls, "slope")
  /\ LET r == sched.answers.slope
     IN IF r.ok
        THEN slope_deg' = r.v /\ outcome' = outcome /\ pc' = "calc_admin"
        ELSE slope_deg' = slope_deg /\ outcome' = Raised(r.exc) /\ pc' = "respond"
  /\ UNCHANGED << lowercasing, req, admin, taluka_area, lithology_code,
                  resolved, fetched, response, call, ret, taluka_areas_json, sched >>

\* fetch_ingres_business_data for a request whose answers are held in sched.
StepFetcherAnswered ==
  /\ pc = "fetcher"
  /\ sched.tid # 0
  /\ calls' = Append(calls, "fetcher")
  /\ LET r == AnswerFor(sched.answers, resolved.match[1])
     IN /\ fetched' = [locuuid |-> resolved.match[1].locationUUID,
                       status |-> r.status, body |-> r.body]
        /\ IF r.status = "ok"
           THEN outcome' = outcome /\ pc' = "entitlement"
           ELSE outcome' = Raised(IF r.status = "http_error" THEN "HTTPError"
                                  ELSE "RequestException")
                /\ pc' = "respond"
  /\ UNCHANGED << lowercasing, req, admin, taluka_area, lithology_code, slope_deg,
                  resolved, response, call, ret, taluka_areas_json, sched >>

NextConcurrent ==
  \/ StepBoundaryIndex
  \/ StepAreaRegistry
  \/ StepSampleRaster
  \/ StepGetSlopeAnswered
  \/ StepCalcAdmin
  \/ StepResolver
  \/ StepFetcherAnswered
  \/ StepEntitlement
  \/ Respond
  \/ Switch

SpecConcurrent == InitConcurrent /\ [][NextConcurrent]_vars

\* ------------------------------------------------------------------------
\* Properties
\* ------------------------------------------------------------------------
IsPrefix(a, b) == Len(a) <= Len(b) /\ SubSeq(b, 1, Len(a)) = a

\* value is the number of litres the rules give, rounded to the nearest
\* hundredth and then multiplied by 100:
\*   litres = (mcm * 10^9) * (farm / (area * 10^4)) * cat% * litho% * 1.00 * 0.70
\* so 100 * litres = mcm * farm * cat * litho * 700 / area (cat, litho in percent).
IsReportedValue(value, mcm, farm, area, catPct, lithoPct) ==
  /\ value.d = 1
  /\ 2 * Abs(value.n * area - mcm * farm * catPct * lithoPct * 700) <= Abs(area)

Returned == pc \in {"respond", "responded"}

\* C1: every request ends either in a complete BalanceResult or in an error
\* object carrying the message of the first stage that failed, whatever that
\* stage is; after a failure no later stage runs.
C1_ResultOrStageError ==
  pc = "responded" =>
    \/ /\ outcome.kind = "result"
       /\ response.body = outcome
       /\ outcome.basis.level_used \in {"taluka", "district"}
       /\ calls[Len(calls)] = "calculator"
    \/ /\ outcome.kind # "result"
       /\ response.body.kind = "error"
       /\ response.body.msg = outcome.msg

SpecStageOrder ==
  << "boundary", "area", "raster", "slope", "resolver", "fetcher", "calculator" >>

CodeStageOrder ==
  << "boundary", "area", "raster", "slope", "boundary", "resolver", "fetcher", "calculator" >>

\* C2 as stated: the stages of one request are invoked in the order Boundary
\* Index, Area Registry, Hydrogeology Sampler, Terrain Slope Provider,
\* Registry Resolver, Data Fetcher, Calculator, none of them twice.
C2_StagesInSpecOrder == IsPrefix(calls, SpecStageOrder)

\* C2 as amended: the stages of one request are invoked one after the other
\* in the order Boundary Index, Area Registry, Hydrogeology Sampler, Terrain
\* Slope Provider, Boundary Index (a second time), Registry Resolver, Data
\* Fetcher, Calculator; nothing else is repeated.
C2_StagesInCodeOrder == IsPrefix(calls, CodeStageOrder)

C2_Witness == pc = "responded" /\ calls = CodeStageOrder

InNoTalukaPolygon ==
  \A i \in 1..Len(TalukaLayer) : << req.longitude, req.latitude >> \notin TalukaLayer[i].cells

\* C3: for a coordinate in no polygon of the fine-grained layer the fine
\* unit is absent, whether or not a coarse unit is found, and the pipeline
\* returns the unresolvable-location error having invoked no other stage.
C3_NoFineUnitIsUnresolvable ==
  (pc \notin {"idle", "boundary"} /\ InNoTalukaPolygon) =>
    /\ admin.taluka = <<>>
    /\ outcome = ErrorObject(MsgNoTaluka)
    /\ calls = << "boundary" >>
    /\ pc = "responded" => response = [status |-> 200, body |-> ErrorObject(MsgNoTaluka)]

C3_Witness ==
  /\ pc = "responded" /\ InNoTalukaPolygon /\ admin.district # <<>>
  /\ response.body = ErrorObject(MsgNoTaluka)

\* No stored unit name equals name ignoring case, and none scores 70 or more.
AreaLookupAbsent(name) ==
  \A i \in 1..Len(TalukaAreas) :
    /\ StrLower(TalukaAreas[i].sdtname) # StrLower(name)
    /\ WRatio(Processed(lowercasing, name), Processed(lowercasing, TalukaAreas[i].sdtname))
         < 70 * 100

\* C4: when the area lookup for the resolved fine unit is absent the
\* pipeline returns "Taluka area not found" and invokes neither the registry
\* resolver, nor the data fetcher, nor the calculator.
C4_AreaAbsentStops ==
  (pc \notin {"idle", "boundary", "area"} /\ admin.taluka # <<>>
     /\ AreaLookupAbsent(admin.taluka[1])) =>
    /\ outcome = ErrorObject(MsgNoArea)
    /\ calls = << "boundary", "area" >>
    /\ pc = "responded" => response.body = ErrorObject(MsgNoArea)

C4_Witness ==
  /\ pc = "responded" /\ admin.taluka = << N_Mulsi >>
  /\ AreaLookupAbsent(N_Mulsi) /\ response.body.msg = MsgNoArea

\* The answer of the Registry Matcher for an administrative name that may
\* be missing.
MatcherFinds(registry, name) ==
  IF Truthy(name) THEN SearchByLocationName(lowercasing, registry, name[1], 70 * 100)
  ELSE <<>>

\* C5: when the Registry Matcher finds a match for the fine-grained name,
\* fetch_ingres_with_fallback returns that match tagged with the fine level
\* and never hands the coarse-grained name to the matcher.
C5_FineMatchEndsLookup ==
  /\ ret.fn = "fetch_ingres_with_fallback" =>
       LET fine == MatcherFinds(call.ingres_data, call.taluka)
       IN fine # <<>> =>
            /\ ret.result.match = fine
            /\ ret.result.level = "taluka"
            /\ ret.result.consulted = << call.taluka[1] >>
  /\ (pc \in {"fetcher", "entitlement"} \/ (Returned /\ Len(calls) >= 6)) =>
       LET fine == MatcherFinds(IngresData, admin.taluka)
       IN fine # <<>> =>
            /\ resolved.match = fine
            /\ resolved.level = "taluka"
            /\ resolved.consulted = << admin.taluka[1] >>

C5_Witness ==
  /\ ret.fn = "fetch_ingres_with_fallback"
  /\ call.taluka = << N_Karad >>
  /\ call.district = << N_Dhule >>
  /\ call.ingres_data = IngresData
  /\ MatcherFinds(IngresData, call.district) # <<>>
  /\ ret.result.level = "taluka"
  /\ ret.result.match = << Location(N_Karat, "TALUK", 2) >>

\* C6: fetch_ingres_with_fallback returns a record tagged coarse exactly when
\* the fine-grained name is absent or unmatched and the coarse-grained name
\* is present and matched, and (None, None) exactly when neither name gives
\* a match; a BalanceResult that rests on the coarse record says so in its
\* basis and is computed from the availability and category fetched for
\* that record.
C6_CoarseFallback ==
  /\ ret.fn = "fetch_ingres_with_fallback" =>
       LET fine == MatcherFinds(call.ingres_data, call.taluka)
           coarse == MatcherFinds(call.ingres_data, call.district)
       IN /\ ret.result.level = "district" <=> (fine = <<>> /\ coarse # <<>>)
          /\ ret.result.level = "district" => ret.result.match = coarse
          /\ (ret.result.match = <<>> /\ ret.result.level = "") <=>
               (fine = <<>> /\ coarse = <<>>)
  /\ (pc \in {"fetcher", "entitlement"} \/ (Returned /\ Len(calls) >= 6)) =>
       LET fine == MatcherFinds(IngresData, admin.taluka)
           coarse == MatcherFinds(IngresData, admin.district)
       IN /\ resolved.level = "district" <=> (fine = <<>> /\ coarse # <<>>)
          /\ resolved.level = "district" => resolved.match = coarse
          /\ resolved.match = <<>> <=> (fine = <<>> /\ coarse = <<>>)
  /\ (Returned /\ outcome.kind = "result" /\ resolved.level = "district") =>
       LET entry == fetched.body[1]
           category == ExtractCategory(entry.category)
       IN /\ outcome.basis.level_used = "district"
          /\ fetched.locuuid = MatcherFinds(IngresData, admin.district)[1].locationUUID
          /\ outcome.basis.category = category
          /\ IsReportedValue(outcome.value, ExtractMcm(entry.availabilityForFutureUse).v,
                             req.farm_area_ares, taluka_area[1],
                             CategoryFactorPct(category),
                             LithologyFactorPct(lithology_code))

C6_Witness ==
  /\ pc = "responded"
  /\ admin = [taluka |-> << N_Sakri >>, district |-> << N_Dhule >>]
  /\ MatcherFinds(IngresData, admin.taluka) = <<>>
  /\ response.body.kind = "result"
  /\ response.body.basis.level_used = "district"
  /\ fetched.locuuid = 3
  /\ response.body.value.n > 0

\* C7 as stated: a query equal, in any letter casing, to the stored name of
\* a record of the candidate list returns that record, whatever the cutoff
\* and the other candidates.
C7_StoredNameReturnsThatRecord ==
  ret.fn = "search_by_location_name" =>
    \A i \in 1..Len(call.locations) :
      StrLower(call.locations[i].locationName) = StrLower(call.query) =>
        ret.match = << call.locations[i] >>

\* C7 as amended: a query equal, in any letter casing, to the stored name of
\* a record returns the first record of the list whose name equals the query
\* ignoring case, whatever the cutoff and the scores; that is the record
\* itself when no earlier candidate has the same name ignoring case.
C7_StoredNameReturnsFirstSuch ==
  ret.fn = "search_by_location_name" =>
    \A i \in 1..Len(call.locations) :
      ( /\ StrLower(call.locations[i].locationName) = StrLower(call.query)
        /\ \A j \in 1..(i - 1) :
             StrLower(call.locations[j].locationName) # StrLower(call.query) ) =>
        ret.match = << call.locations[i] >>

C7_Witness ==
  /\ ret.fn = "search_by_location_name"
  /\ ~lowercasing
  /\ call.score_cutoff = 100 * 100
  /\ call.query = N_pune
  /\ call.locations = << Location(N_Karat, "TALUK", 2), Location(N_PUNE, "DISTRICT", 1) >>
  /\ ret.match = << Location(N_PUNE, "DISTRICT", 1) >>

\* The score of a candidate name against the query, as extractOne computes it.
ScoreOf(query, name) == WRatio(Processed(lowercasing, query), Processed(lowercasing, name))

\* C8 as stated: a candidate the Registry Matcher returns scores at least
\* the cutoff against the query, and the result is absent when no candidate
\* reaches the cutoff.
C8_ReturnedScoresAtLeastCutoff ==
  ret.fn = "search_by_location_name" =>
    /\ ret.match # <<>> =>
         ScoreOf(call.query, ret.match[1].locationName) >= call.score_cutoff
    /\ (\A i \in 1..Len(call.locations) :
          ScoreOf(call.query, call.locations[i].locationName) < call.score_cutoff) =>
         ret.match = <<>>

\* C8 as amended: a candidate the Registry Matcher returns either has the
\* query as its name ignoring case (step 1, which computes no score) or
\* scores at least the cutoff against the query; the result is absent when
\* no candidate has the query as its name ignoring case and none reaches
\* the cutoff.
C8_ReturnedIsExactOrAtLeastCutoff ==
  ret.fn = "search_by_location_name" =>
    /\ ret.match # <<>> =>
         \/ StrLower(ret.match[1].locationName) = StrLower(call.query)
         \/ ScoreOf(call.query, ret.match[1].locationName) >= call.score_cutoff
    /\ (\A i \in 1..Len(call.locations) :
          /\ StrLower(call.locations[i].locationName) # StrLower(call.query)
          /\ ScoreOf(call.query, call.locations[i].locationName) < call.score_cutoff) =>
         ret.match = <<>>

C8_Witness ==
  /\ ret.fn = "search_by_location_name"
  /\ call.query = N_Karad
  /\ call.score_cutoff = 70 * 100
  /\ call.locations = << Location(N_PUNE, "DISTRICT", 1), Location(N_Karat, "TALUK", 2) >>
  /\ ret.match = << Location(N_Karat, "TALUK", 2) >>
  /\ ScoreOf(N_Karad, N_Karat) = 80 * 100

\* C9: the reported value is round(finalLitres, 2) * 100 with finalLitres =
\* (availabilityMcm * 1e9) * (farmAreaAres / (talukaAreaSqKm * 10000)) *
\* categoryFactor * hydrogeologyFactor * 1.00 * 0.70, the hydrogeology factor
\* being 1.00 for the codes 0..5 and 0.50 for any other; unit area 100 km2,
\* availability 1 MCM, category Safe, code 1 and farm area 1 are give 28000.
C9_ReportedValue ==
  (ret.fn = "compute" /\ ret.outcome.kind = "result") =>
    LET entry == call.ingres_data[1]
        mcm == ExtractMcm(entry.availabilityForFutureUse).v
        catPct == CategoryFactorPct(ret.outcome.basis.category)
        lithoPct == IF call.lithology_code \in {0, 1, 2, 3, 4, 5} THEN 100 ELSE 50
    IN /\ IsReportedValue(ret.outcome.value, mcm, call.farm_area_ares,
                          call.taluka_area_sq_km, catPct, lithoPct)
       /\ ( /\ call.taluka_area_sq_km = 100
            /\ mcm = 1
            /\ ret.outcome.basis.category = S_Safe
            /\ call.lithology_code = 1
            /\ call.farm_area_ares = 1 ) => ret.outcome.value = RInt(28000)

C9_Witness ==
  /\ ret.fn = "compute"
  /\ call.taluka_area_sq_km = 100
  /\ call.farm_area_ares = 1
  /\ call.lithology_code = 1
  /\ call.ingres_data = << Entry(N_Pune, JNum(1), JStr(C_safe)) >>
  /\ ret.outcome.kind = "result"
  /\ ret.outcome.basis.category = S_Safe
  /\ ret.outcome.value = RInt(28000)

\* The category string the service delivered: the value itself, or the
\* "total" or else the "non_command" field of a structure.
DeliveredCategory(cat) ==
  IF cat.t = "str" THEN cat.s
  ELSE IF cat.t = "dict" /\ cat.total.t = "str" /\ cat.total.s # <<>> THEN cat.total.s
  ELSE IF cat.t = "dict" /\ cat.non_command.t = "str" THEN cat.non_command.s
  ELSE <<>>

\* The factor the table gives the category a string names, 0.10 for a
\* string that names none of the four, in percent.
TableFactorPct(delivered) ==
  IF StrLower(delivered) = StrLower(S_Safe) THEN 40
  ELSE IF StrLower(delivered) = StrLower(S_SemiCritical) THEN 25
  ELSE IF StrLower(delivered) = StrLower(S_Critical) THEN 10
  ELSE IF StrLower(delivered) = StrLower(S_OverExploited) THEN 5
  ELSE 10

\* C10: the category factor applied is the table value (Safe 0.40,
\* Semi-Critical 0.25, Critical 0.10, Over-exploited 0.05) when the category
\* the service delivered names one of the four, and 0.10 otherwise; a region
\* reported as Over-exploited is discounted with 0.05.
C10_CategoryFactorFromTable ==
  (ret.fn = "compute" /\ ret.outcome.kind = "result") =>
    LET entry == call.ingres_data[1]
    IN IsReportedValue(ret.outcome.value,
                       ExtractMcm(entry.availabilityForFutureUse).v,
                       call.farm_area_ares, call.taluka_area_sq_km,
                       TableFactorPct(DeliveredCategory(entry.category)),
                       LithologyFactorPct(call.lithology_code))

\* C11: extract_mcm returns a number for every input shape and never fails:
\* a number is returned as it is, a structure yields its "total" field if
\* present, else its "non_command" field, else 0.0, and None, a string, a
\* list and a structure whose fields are absent or not numbers yield 0.0.
C11_ExtractMcmNeverFails ==
  ret.fn = "extract_mcm" =>
    LET value == call.value
    IN /\ ret.result.ok
       /\ value.t = "num" => ret.result.v = value.n
       /\ (value.t = "dict" /\ value.total.t = "num") => ret.result.v = value.total.n
       /\ (value.t = "dict" /\ value.total.t = "absent" /\ value.non_command.t = "num") =>
            ret.result.v = value.non_command.n
       /\ ( \/ value.t \in {"null", "str", "list"}
            \/ /\ value.t = "dict"
               /\ value.total.t \in {"absent", "null"}
               /\ value.non_command.t \in {"absent", "null"} ) => ret.result.v = 0

\* The category a value names, a field being taken for present when it holds
\* a string or a number.
CategoryAsStated(cat) ==
  IF cat.t = "null" THEN S_Critical
  ELSE IF cat.t = "str" THEN StrTitle(cat.s)
  ELSE IF cat.t = "dict" /\ cat.total.t \in {"str", "num"} THEN StrTitle(StrOf(cat.total))
  ELSE IF cat.t = "dict" /\ cat.non_command.t \in {"str", "num"}
  THEN StrTitle(StrOf(cat.non_command))
  ELSE S_Critical

\* A value Python takes for false: None, "", 0, [] and {}.
IsEmptyValue(cat) ==
  \/ cat.t = "null"
  \/ cat.t = "str" /\ cat.s = <<>>
  \/ cat.t \in {"num", "list"} /\ cat.n = 0
  \/ cat.t = "dict" /\ cat.total.t = "absent" /\ cat.non_command.t = "absent"

\* A field of a structure that is there and holds neither None, "" nor 0.
IsUsableField(f) ==
  \/ f.t = "str" /\ f.s # <<>>
  \/ f.t = "num" /\ f.n # 0

\* C12 as stated: extract_category returns "Critical" for an absent value,
\* the title-cased string for a string, the title-cased "total" field of a
\* structure that has one, otherwise its title-cased "non_command" field,
\* and "Critical" for every other shape.
C12_CategoryAsStated ==
  ret.fn = "extract_category" => ret.category = CategoryAsStated(call.cat)

\* C12 as amended: extract_category returns "Critical" for an absent or empty
\* value (None, "", 0, [], {}), the title-cased string for a non-empty
\* string, for a structure the title-cased "total" field if that field is
\* there and not empty, otherwise the title-cased "non_command" field if that
\* one is there and not empty, and "Critical" in every other case;
\* "semi-critical" gives "Semi-Critical".
C12_CategoryNormalized ==
  ret.fn = "extract_category" =>
    LET cat == call.cat
    IN /\ IsEmptyValue(cat) => ret.category = S_Critical
       /\ (cat.t = "str" /\ cat.s # <<>>) => ret.category = StrTitle(cat.s)
       /\ (cat.t = "dict" /\ IsUsableField(cat.total)) =>
            ret.category = StrTitle(StrOf(cat.total))
       /\ (cat.t = "dict" /\ ~IsUsableField(cat.total) /\ IsUsableField(cat.non_command)) =>
            ret.category = StrTitle(StrOf(cat.non_command))
       /\ (cat.t = "dict" /\ ~IsUsableField(cat.total) /\ ~IsUsableField(cat.non_command)) =>
            ret.category = S_Critical
       /\ (cat.t \in {"num", "list"}) => ret.category = S_Critical
       /\ cat = JStr(C_semi_critical) => ret.category = S_SemiCritical

C12_Witness ==
  /\ ret.fn = "extract_category"
  /\ call.cat = JDict(StrField(<<>>), StrField(C_safe))
  /\ ret.category = S_Safe

\* C13: a request whose resolved unit area is zero or negative ends in a
\* failure and never in a BalanceResult; no value returned is computed from
\* a unit area that is not positive.
C13_NonPositiveAreaFails ==
  /\ (Returned /\ taluka_area # <<>> /\ taluka_area[1] <= 0) => outcome.kind # "result"
  /\ (Returned /\ outcome.kind = "result") => outcome.basis.taluka_area_sq_km > 0

\* How often a stage occurs among the stages invoked.
Count(stages, stage) == Cardinality({i \in 1..Len(stages) : stages[i] = stage})

\* C14: within one request the raster read, the elevation call and the
\* business-data call are each issued at most once; when the business-data
\* call fails in transport or with a non-success status the request fails
\* with that exception, no later stage runs, and the caller gets a failure
\* response that carries no groundwater value.
C14_NoRetryNoDefault ==
  /\ \A stage \in {"raster", "slope", "fetcher"} : Count(calls, stage) <= 1
  /\ fetched.status \in {"transport_error", "http_error"} =>
       /\ pc \in {"respond", "responded"}
       /\ outcome = Raised(IF fetched.status = "http_error" THEN "HTTPError"
                           ELSE "RequestException")
       /\ calls[Len(calls)] = "fetcher"
       /\ pc = "responded" =>
            /\ response.status = 500
            /\ response.body.kind \in {"error", "traceback"}
            /\ response.body.value = RInt(0)
            /\ response.body.basis = NoBasis

C14_Witness ==
  /\ pc = "responded"
  /\ fetched.status = "http_error"
  /\ Count(calls, "fetcher") = 1
  /\ response.status = 500

\* C15: two invocations of calculate_groundwater_balance with identical
\* arguments return identical results, whatever happens to the registry
\* file and the registry service between them.
C15_CalculatorPure ==
  (ret.fn = "calculate_groundwater_balance" /\ Len(ret.results) = 2) =>
    ret.results[1] = ret.results[2]

\* C16: no category value that reaches the factor lookup gets a factor
\* smaller than the one applied when the category is absent.
C16_AbsentCategoryMostConservative ==
  /\ ret.fn = "extract_category" =>
       CategoryFactorPct(ret.category) >= CategoryFactorPct(ExtractCategory(JNull))
  /\ (ret.fn = "compute" /\ ret.outcome.kind = "result") =>
       CategoryFactorPct(ret.outcome.basis.category) >= CategoryFactorPct(ExtractCategory(JNull))
  /\ (Returned /\ outcome.kind = "result") =>
       CategoryFactorPct(outcome.basis.category) >= CategoryFactorPct(ExtractCategory(JNull))

C16_Witness ==
  /\ ret.fn = "compute"
  /\ call.ingres_data # <<>>
  /\ call.ingres_data[1].category = JStr(S_OverExploited)
  /\ ret.outcome.kind = "result"
  /\ CategoryFactorPct(ret.outcome.basis.category) = CategoryFactorPct(ExtractCategory(JNull))

\* C17: the area table is loaded once at start-up: the area a request gets
\* for a unit name is the one the table held when the process started,
\* whatever is done to the file afterwards.
C17_AreaAsAtStartup ==
  (pc \notin {"idle", "boundary", "area"} /\ Len(calls) >= 2) =>
    taluka_area = GetTalukaAreaSqKm(lowercasing, TalukaAreas, admin.taluka[1])

\* The responses gw_balance and the application can give to an outcome.
ResponsesFor(o) ==
  IF o.kind \in {"result", "error"} THEN { [status |-> 200, body |-> o] }
  ELSE { [status |-> 500, body |-> ErrorObject(MsgInternal)],
         [status |-> 500, body |-> [kind |-> "traceback", msg |-> o.msg,
                                    value |-> RInt(0), basis |-> NoBasis]] }

\* The locals of thread t.
ContextOf(t) == IF t = sched.tid THEN Context ELSE sched.parked[t]

\* C18: requests served at the same time are independent: a step of one
\* thread changes neither the locals of another thread nor the reference
\* data, and in every interleaving a request that has run to its return has
\* the outcome and a response it gets when it runs alone on the same
\* reference data and the same answers of the services (it keeps them while
\* its thread waits, as no step of another thread changes them).
C18_ConcurrentAsAlone ==
  /\ [](pc \in {"respond", "responded"} =>
          /\ outcome = GroundwaterBalanceFromApiInput(
                         lowercasing, req.latitude, req.longitude, req.farm_area_ares,
                         TalukaAreas, IngresData, sched.answers)
          /\ pc = "responded" => response \in ResponsesFor(outcome))
  /\ [][ /\ taluka_areas_json' = taluka_areas_json
         /\ \A t \in Threads :
              (t # sched.tid \/ sched'.tid # sched.tid) => ContextOf(t)' = ContextOf(t) ]_vars

C18_Witness ==
  /\ sched.tid = 1
  /\ pc = "responded"
  /\ outcome.kind = "result"
  /\ req.latitude = 0
  /\ sched.parked[2].pc = "responded"
  /\ sched.parked[2].req.latitude = 2
  /\ sched.parked[2].outcome = Raised("HTTPError")

SlopeValues == {0, 3, 12, 560}

\* C19: slope_factor returns 1.0 for every input, and two requests that
\* differ only in the slope the Terrain Slope Provider returned get the same
\* BalanceResult.
C19_SlopeIsNoOp ==
  /\ \A sl \in SlopeValues : SlopeFactorPct(sl) = 100
  /\ ret.fn = "compute" =>
       \A sl \in SlopeValues :
         Entitlement(call.farm_area_ares, call.taluka_area_sq_km, call.lithology_code, sl,
                     call.level_used, call.ingres_data) = ret.outcome
  /\ (Returned /\ calls # <<>> /\ calls[Len(calls)] = "calculator") =>
       \A sl \in SlopeValues :
         Entitlement(req.farm_area_ares, taluka_area[1], lithology_code, sl,
                     resolved.level, ShortenIngresResponse(fetched.body)) = outcome

C19_Witness ==
  /\ pc = "responded"
  /\ slope_deg = 560
  /\ response.body.kind = "result"
  /\ response.body.value.n > 0
  /\ response.body =
       Entitlement(req.farm_area_ares, taluka_area[1], lithology_code, 0,
                   resolved.level, ShortenIngresResponse(fetched.body))

\* C20: a record the resolver tags "taluka" is a record of a fine-grained
\* unit and a record it tags "district" is a record of a coarse-grained
\* unit, whatever the registry holds.
C20_LevelTagMatchesUnitType ==
  /\ ret.fn = "fetch_ingres_with_fallback" =>
       /\ ret.result.level = "taluka" => ret.result.match[1].locationType = "TALUK"
       /\ ret.result.level = "district" => ret.result.match[1].locationType = "DISTRICT"
  /\ (Returned /\ outcome.kind = "result") =>
       /\ outcome.basis.level_used = "taluka" => resolved.match[1].locationType = "TALUK"
       /\ outcome.basis.level_used = "district" => resolved.match[1].locationType = "DISTRICT"

\* C21: in every BalanceResult the area that prorates the availability is
\* the area of the unit whose registry record supplied that availability:
\* the record was found under the name the area was looked up with, also
\* when the coarse-level record is used.
C21_AreaOfTheUnitOfTheRecord ==
  (Returned /\ outcome.kind = "result") =>
    /\ outcome.basis.taluka_area_sq_km = taluka_area[1]
    /\ resolved.consulted[Len(resolved.consulted)] = admin.taluka[1]

====
